---- MODULE Spec2Model ----
(***************************************************************************)
(* collect_graphs.py: main() parses every file named on the command line   *)
(* with Graph.from_file and then prints one cluster block per file.        *)
(*                                                                         *)
(* Representation.  A dotted string such as  module.a.aws_vpc.main  is the *)
(* sequence of its dot-free words <<"module","a","aws_vpc","main">> (what  *)
(* str.split('.') returns); Join gives the string back.  A body line is    *)
(* given by its parse under the three line shapes of the input format:     *)
(*   "[root] <name>" [<attributes>]            shape "node"                *)
(*   "[root] <from_name>" -> "[root] <to_name>" shape "edge"               *)
(*   anything else                              shape "other"              *)
(* The attribute text is the sequence of its comma-separated pairs, each   *)
(* pair the sequence of its '='-separated parts, each part a dotted        *)
(* string; a value part stands for a double-quoted string.                 *)
(* A Graph object is identified by the path of modules keys that leads to  *)
(* it from the root Graph of its file (<<>> is the root): the tree of one  *)
(* file is a function from such paths to the fields of the Graph objects.  *)
(***************************************************************************)
EXTENDS Integers, Sequences, FiniteSets, TLC

VARIABLES pc, argc, graph, subgraphs, stdout, line, nread

vars == <<pc, argc, graph, subgraphs, stdout, line, nread>>

\* at most MaxFiles files are named on the command line, and at most MaxLines
\* body lines are read in one run, over all files
MaxFiles == 2
MaxLines == 3

(***************************************************************************)
(* Strings                                                                 *)
(***************************************************************************)
RECURSIVE Join(_, _)
\* sep.join(words)
Join(sep, words) ==
    IF words = <<>> THEN ""
    ELSE IF Len(words) = 1 THEN words[1]
    ELSE words[1] \o sep \o Join(sep, Tail(words))

\* the dotted string whose words are ws
Dotted(ws) == Join(".", ws)

\* the words of the inputs that start with "aws", with "aws (close)", with
\* "default_tags", with "tags", with "count-boundary (EachMode fixup)", and
\* those that end with "var"
StartsWithAws == {"aws", "aws_vpc", "aws (close)"}
StartsWithAwsClose == {"aws (close)"}
StartsWithDefaultTags == {"default_tags"}
StartsWithTags == {"tags"}
StartsWithFixup == {"count-boundary (EachMode fixup)"}
EndsWithVar == {"var"}

(***************************************************************************)
(* Lines                                                                   *)
(***************************************************************************)
NodeLine(name, attributes) ==
    [shape |-> "node", name |-> name, attributes |-> attributes]
EdgeLine(from_name, to_name) ==
    [shape |-> "edge", from_name |-> from_name, to_name |-> to_name]
OtherLine == [shape |-> "other"]
NoLine == [shape |-> "none"]

\* the dotted strings of a line that follow a  "[root]  prefix
Identifiers(l) ==
    IF l.shape = "node" THEN {l.name}
    ELSE IF l.shape = "edge" THEN {l.from_name, l.to_name}
    ELSE {}

\* every dotted string of a line
RECURSIVE Parts(_)
Parts(attributes) ==
    IF attributes = <<>> THEN {}
    ELSE {attributes[1][i] : i \in 1..Len(attributes[1])} \cup Parts(Tail(attributes))

DottedStrings(l) ==
    Identifiers(l) \cup (IF l.shape = "node" THEN Parts(l.attributes) ELSE {})

(***************************************************************************)
(* Line Filter                                                             *)
(***************************************************************************)
\* the dotted string ws is  <first>.<second>...  for a word second of seconds
StartsWith(ws, first, seconds) ==
    Len(ws) >= 2 /\ ws[1] = first /\ ws[2] \in seconds

\* the dotted string ws has  <first>.<second>  in it, for words of the two sets
Contains(ws, firsts, seconds) ==
    \E i \in 1..(Len(ws) - 1) : ws[i] \in firsts /\ ws[i + 1] \in seconds

\* r'^.* -> "\[[^]]*\] provider\.aws'
aws_provider_link(l) ==
    l.shape = "edge" /\ StartsWith(l.to_name, "provider", StartsWithAws)

\* r'^.* -> "\[[^]]*\] var\.default_tags'
default_tags_link(l) ==
    l.shape = "edge" /\ StartsWith(l.to_name, "var", StartsWithDefaultTags)

\* r'.*var\.tags.*'
var_tags(l) ==
    \E ws \in DottedStrings(l) : Contains(ws, EndsWithVar, StartsWithTags)

\* r'^.*] provider\.aws \(close\)'
provider_close(l) ==
    \E ws \in Identifiers(l) : StartsWith(ws, "provider", StartsWithAwsClose)

\* r'^.*] meta\.count-boundary \(EachMode fixup\)'
count_boundary(l) ==
    \E ws \in Identifiers(l) : StartsWith(ws, "meta", StartsWithFixup)

\* r'^.*] root" -> '
root_link(l) ==
    l.shape = "edge" /\ l.from_name = <<"root">>

\* any(p.match(line) for p in unwanted_patterns)
unwanted_patterns(l) ==
    \/ aws_provider_link(l)
    \/ default_tags_link(l)
    \/ var_tags(l)
    \/ provider_close(l)
    \/ count_boundary(l)
    \/ root_link(l)

\* a variant of wanted_line that rejects nothing
wanted_line_all(l) == TRUE

wanted_line(l) == ~unwanted_patterns(l)

(***************************************************************************)
(* Line shapes                                                             *)
(***************************************************************************)
\* Edge.edge_line.fullmatch(line)
Edge_valid_line(l) == l.shape = "edge"

\* Node.node_line.fullmatch(line): the generic node shape
Node_valid_line(l) == l.shape = "node"

\* Variable.node_line.fullmatch(line): the name starts with  var.
Variable_valid_line(l) ==
    l.shape = "node" /\ Len(l.name) >= 2 /\ l.name[1] = "var"

RECURSIVE Segments(_)
\* how many  module.<name>.  segments the greedy group (module\.[^.]*\.)+ of
\* Graph.module_line takes from the front of the name ws; a segment needs a
\* word "module", one more word, and the dot after it
Segments(ws) ==
    IF Len(ws) >= 3 /\ ws[1] = "module"
    THEN 1 + Segments(SubSeq(ws, 3, Len(ws)))
    ELSE 0

\* Graph.module_line.fullmatch(line)
module_line(l) == l.shape = "node" /\ Segments(l.name) >= 1

\* match['module_name']: the segments taken, a dotted string that ends with a dot
module_name(l) == SubSeq(l.name, 1, 2 * Segments(l.name)) \o <<"">>

\* module_path[7:-1] of a path that starts with "module." and ends with "."
Slice7(module_path) == SubSeq(module_path, 2, Len(module_path) - 1)

\* the least i with 1 < i < Len(ws) and ws[i] = "module": the leftmost
\* ".module." of the dotted string ws; 0 when there is none
FindDotModuleDot(ws) ==
    LET found == {i \in 2..(Len(ws) - 1) : ws[i] = "module"}
    IN  IF found = {} THEN 0
        ELSE CHOOSE i \in found : \A j \in found : i <= j

RECURSIVE SplitDotModuleDot(_)
\* s.split(".module."): the pieces of the dotted string ws, as strings
SplitDotModuleDot(ws) ==
    LET i == FindDotModuleDot(ws)
    IN  IF i = 0 THEN <<Dotted(ws)>>
        ELSE <<Dotted(SubSeq(ws, 1, i - 1))>>
                 \o SplitDotModuleDot(SubSeq(ws, i + 1, Len(ws)))

\* a variant of FilterNone that keeps the empty strings
FilterNone_keep(strings) == strings

\* list(filter(None, strings))
FilterNone(strings) == SelectSeq(strings, LAMBDA s : s # "")

\* module_names of from_file
module_names(l) == FilterNone(SplitDotModuleDot(Slice7(module_name(l))))

(***************************************************************************)
(* Node, Resource, Variable, Edge                                          *)
(***************************************************************************)
\* every pair of the attribute text splits into exactly two parts on '='
\* (dict() raises ValueError otherwise)
PairsOk(attributes) ==
    \A i \in 1..Len(attributes) : Len(attributes[i]) = 2

\* d[k] = v of a dict kept as the sequence of its items, in insertion order
DictSet(d, k, v) ==
    IF \E i \in 1..Len(d) : d[i][1] = k
    THEN [i \in 1..Len(d) |-> IF d[i][1] = k THEN <<k, v>> ELSE d[i]]
    ELSE Append(d, <<k, v>>)

RECURSIVE DictFrom(_, _)
DictFrom(d, pairs) ==
    IF pairs = <<>> THEN d
    ELSE DictFrom(DictSet(d, Dotted(pairs[1][1]), pairs[1][2]), Tail(pairs))

\* Node._parse_attributes, for an attribute text with PairsOk
parse_attributes(attributes) == DictFrom(<<>>, attributes)

HasKey(d, k) == \E i \in 1..Len(d) : d[i][1] = k

DictGet(d, k) == d[CHOOSE i \in 1..Len(d) : d[i][1] = k][2]

\* the dict after d.pop(k)
DictPop(d, k) == SelectSeq(d, LAMBDA item : item[1] # k)

\* Node.__init__ raises: ValueError from dict(), KeyError from pop('label')
Node_raises(attributes) ==
    \/ ~PairsOk(attributes)
    \/ ~HasKey(parse_attributes(attributes), "label")

\* Resource.__init__ raises: also ValueError when  self.resource, self.key =
\* label_parts[-2:]  finds fewer than two parts
Resource_raises(attributes) ==
    \/ Node_raises(attributes)
    \/ Len(DictGet(parse_attributes(attributes), "label")) < 2

\* resource[4:] if resource.startswith('aws_'), on the words of the inputs
StripAws(resource) ==
    IF resource = "aws_vpc" THEN "vpc" ELSE resource

\* Resource.__init__ (Variable inherits it); cls is the class constructed
Resource_init(cls, name, attributes, owner) ==
    LET attribute_map == parse_attributes(attributes)
        label == DictGet(attribute_map, "label")
        label_parts == label
        n == Len(label_parts)
    IN  [cls        |-> cls,
         name       |-> name,
         graph      |-> owner,
         label      |-> label,
         attributes |-> DictPop(attribute_map, "label"),
         resource   |-> StripAws(label_parts[n - 1]),
         key        |-> label_parts[n],
         is_data    |-> (n = 3 /\ label_parts[1] = "data")]

\* Edge.__init__
Edge_init(from_name, to_name, owner) ==
    [from_name |-> from_name, to_name |-> to_name, graph |-> owner]

(***************************************************************************)
(* Graph                                                                   *)
(***************************************************************************)
\* the root Graph of a tree
Root == <<>>

\* label=None
None == <<>>

\* Graph.__init__; modules holds the keys of the dict in insertion order, the
\* Graph stored under key k of the Graph at path p is the one at Append(p, k)
Graph_init(name, label) ==
    [name |-> name, label |-> label, nodes |-> <<>>, edges |-> <<>>,
     modules |-> <<>>]

NoGraph == [p \in {} |-> Graph_init("", None)]

\* a variant of InModules that never finds the key: every step creates a Graph
InModules_never(g, module, sub_module_name) == FALSE

\* sub_module_name in module.modules
InModules(g, module, sub_module_name) ==
    \E i \in 1..Len(g[module].modules) : g[module].modules[i] = sub_module_name

\* the name given to a new Graph of the tree g made below module
SubName(g, module, sub_module_name) ==
    g[Root].name \o ":" \o sub_module_name

\* module.modules[sub_module_name] = Graph(name=..., label=sub_module_name)
SetModule(g, module, sub_module_name) ==
    LET child == Append(module, sub_module_name)
        new   == Graph_init(SubName(g, module, sub_module_name), <<sub_module_name>>)
        keys  == IF InModules(g, module, sub_module_name)
                 THEN g[module].modules
                 ELSE Append(g[module].modules, sub_module_name)
        kept  == {p \in DOMAIN g :
                      ~(Len(p) > Len(child) /\ SubSeq(p, 1, Len(child)) = child)}
    IN  [p \in kept \cup {child} |->
            IF p = child THEN new
            ELSE IF p = module THEN [g[p] EXCEPT !.modules = keys]
            ELSE g[p]]

RECURSIVE Walk(_, _, _)
\* for sub_module_name in module_names: ...   (from_file); gives the tree and
\* the Graph that module refers to after the loop
Walk(g, module, names) ==
    IF names = <<>> THEN [graph |-> g, module |-> module]
    ELSE LET sub_module_name == Head(names)
         IN  IF InModules(g, module, sub_module_name)
             THEN Walk(g, Append(module, sub_module_name), Tail(names))
             ELSE Walk(SetModule(g, module, sub_module_name),
                       Append(module, sub_module_name), Tail(names))

\* a variant of NodeOwner that passes the Graph the node is appended to
NodeOwner_module(module) == module

\* the graph= argument of node_class.from_match(match, graph=graph)
NodeOwner(module) == Root

\* the graph= argument of Edge.from_match(match, graph=graph)
EdgeOwner == Root

\* a variant of NodeName that takes the name group of Graph.module_line, the
\* identifier without its module segments
NodeName_local(l) == SubSeq(l.name, 2 * Segments(l.name) + 1, Len(l.name))

\* match.groupdict()['name'] of node_class.valid_line(line)
NodeName(l) == l.name

\* a variant of NodeClass in which the generic classifier accepts no line
NodeClass_narrow(l) ==
    IF Variable_valid_line(l) THEN "Variable" ELSE "none"

\* the class of [Variable, Resource] whose valid_line matches first
NodeClass(l) ==
    IF Variable_valid_line(l) THEN "Variable"
    ELSE IF Node_valid_line(l) THEN "Resource"
    ELSE "none"

\* a variant of AppendNode that appends to the root Graph whatever the module
AppendNode_root(g, module, node) ==
    [g EXCEPT ![Root].nodes = Append(@, node)]

\* module.nodes.append(node)
AppendNode(g, module, node) ==
    [g EXCEPT ![module].nodes = Append(@, node)]

\* a variant of AppendEdge that files the edge under the module path of its
\* source endpoint
AppendEdge_nested(g, edge) ==
    LET w == Walk(g, Root, module_names(NodeLine(edge.from_name, <<>>)))
    IN  IF Segments(edge.from_name) >= 1
        THEN [w.graph EXCEPT ![w.module].edges = Append(@, edge)]
        ELSE [g EXCEPT ![Root].edges = Append(@, edge)]

\* graph.edges.append(edge)
AppendEdge(g, edge) ==
    [g EXCEPT ![Root].edges = Append(@, edge)]

\* one iteration of the loop of Graph.from_file over the stripped line l, on
\* the tree g: whether it raised, and the tree after it
LoopBody(g, l) ==
    IF ~wanted_line(l) THEN [raised |-> FALSE, graph |-> g]
    ELSE IF Edge_valid_line(l)
    THEN [raised |-> FALSE,
          graph  |-> AppendEdge(g, Edge_init(l.from_name, l.to_name, EdgeOwner))]
    ELSE LET w == IF module_line(l) THEN Walk(g, Root, module_names(l))
                  ELSE [graph |-> g, module |-> Root]
             node_class == NodeClass(l)
         IN  IF node_class = "none"
             THEN [raised |-> FALSE, graph |-> w.graph]
             ELSE IF Resource_raises(l.attributes)
             THEN [raised |-> TRUE, graph |-> w.graph]
             ELSE [raised |-> FALSE,
                   graph  |-> AppendNode(w.graph, w.module,
                                Resource_init(node_class, NodeName(l),
                                              l.attributes, NodeOwner(w.module)))]

(***************************************************************************)
(* Serializer                                                              *)
(***************************************************************************)
\* Resource.colors
colors ==
    [iam_role_policy_attachment |-> "orange1", iam_policy_document |-> "orange1",
     iam_policy |-> "orange2", iam_role_policy |-> "orange2",
     sqs_queue_policy |-> "orange2", iam_role |-> "orange3",
     security_group |-> "orange4", s3_bucket_public_access_block |-> "orange2",
     route |-> "green1", route_table |-> "green2", vpc |-> "green4",
     vpc_endpoint |-> "green2", internet_gateway |-> "green2",
     subnet |-> "green3", elasticache_subnet_group |-> "green3",
     ecs_service |-> "blue1", ecs_task_definition |-> "blue2",
     ecs_cluster |-> "blue4", ecr_repository |-> "blue4", instance |-> "blue4",
     lambda_function |-> "blue2", s3_bucket |-> "red1",
     elasticache_replication_group |-> "red2", dynamodb_table |-> "red3",
     cloudwatch_log_group |-> "purple1", cloudwatch_event_target |-> "purple1",
     cloudwatch_event_rule |-> "purple1"]

\* Resource.color
color(resource_name) ==
    IF resource_name \in DOMAIN colors THEN colors[resource_name] ELSE "gray40"

\* Resource.label_formatted
label_formatted(node) ==
    "<<table border=\"0\"><tr><td>"
    \o (IF node.is_data
        THEN "<font color=\"gray60\" point-size=\"9\">data.</font>" ELSE "")
    \o "<font color=\"" \o color(node.resource) \o "\" point-size=\"9\">"
    \o node.resource \o "</font></td></tr><tr><td>" \o node.key
    \o "</td></tr></table>>"

\* the text of a value part: a double-quoted dotted string
Quoted(ws) == "\"" \o Dotted(ws) \o "\""

\* Node.attributes_as_str
attributes_as_str(node) ==
    Join(",", [i \in 1..Len(node.attributes) |->
                   node.attributes[i][1] \o "=" \o Quoted(node.attributes[i][2])])

\* "[{graph.name}] {name}" with its quotes: the identifier a node or an edge
\* endpoint is rendered with
RenderedId(g, owner, name) ==
    "\"[" \o g[owner].name \o "] " \o Dotted(name) \o "\""

\* Resource.__str__ of a node of the tree g
Resource_str(g, node) ==
    RenderedId(g, node.graph, node.name) \o " [label=" \o label_formatted(node)
    \o "," \o attributes_as_str(node) \o "]"

\* Edge.__str__ of an edge of the tree g
Edge_str(g, edge) ==
    RenderedId(g, edge.graph, edge.from_name) \o ":e -> "
    \o RenderedId(g, edge.graph, edge.to_name) \o ":w"

RECURSIVE Graph_str(_, _)
\* Graph.__str__ of the Graph at path p of the tree g
Graph_str(g, p) ==
    LET self == g[p]
        label == IF self.label = None THEN self.name ELSE self.label[1]
    IN  Join("\n", <<
            "subgraph \"cluster_" \o self.name \o "\" {",
            "\tlabel = \"" \o label \o "\";",
            "",
            "\t" \o Join("\n\t", [i \in 1..Len(self.modules) |->
                                     Graph_str(g, Append(p, self.modules[i]))]),
            "",
            "\t" \o Join("\n\t", [i \in 1..Len(self.nodes) |->
                                     Resource_str(g, self.nodes[i])]),
            "",
            "\t" \o Join("\n\t", [i \in 1..Len(self.edges) |->
                                     Edge_str(g, self.edges[i])]),
            "}" >>)

(***************************************************************************)
(* Inputs                                                                  *)
(***************************************************************************)
\* os.path.splitext(os.path.basename(filepath))[0] of the i-th file named
FileRoot(i) == "f" \o ToString(i)

\* module paths, as the sub-module names between "module." and "."
ModulePaths ==
    {<<>>, <<"a">>, <<"a", "a">>, <<"b", "a">>,
     <<"">>, <<"", "a">>, <<"a", "">>, <<"a", "module">>}

RECURSIVE Prefix(_)
\* module.<n1>.module.<n2>. ... in front of a name
Prefix(path) ==
    IF path = <<>> THEN <<>>
    ELSE <<"module", Head(path)>> \o Prefix(Tail(path))

VpcMain == <<"aws_vpc", "main">>

NodeNames ==
    {Prefix(path) \o VpcMain : path \in ModulePaths}
    \cup {<<"var", "x">>,
          <<"module", "a", "var", "tags">>,
          <<"provider", "aws (close)">>,
          <<"meta", "count-boundary (EachMode fixup)">>}

\* label = "<name>", shape = "box"
GoodAttributes(name) ==
    << <<<<"label">>, name>>, <<<<"shape">>, <<"box">>>> >>

\* attribute texts Resource.__init__ raises on:
\*   label = "<name>", shape          shape = "box"
\*   label = "main", shape = "box"    (empty)
BadAttributes(name) ==
    {<< <<<<"label">>, name>>, <<<<"shape">>>> >>,
     << <<<<"shape">>, <<"box">>>> >>,
     << <<<<"label">>, <<"main">>>>, <<<<"shape">>, <<"box">>>> >>,
     << <<<<"">>>> >>}

BadNames ==
    {VpcMain, Prefix(<<"a", "a">>) \o VpcMain, <<"module", "a", "var", "tags">>}

EdgeFrom == {VpcMain, Prefix(<<"a", "a">>) \o VpcMain, <<"root">>}
EdgeTo == {VpcMain, <<"provider", "aws">>, <<"var", "default_tags">>}

\* the stripped body lines a file may hold
Lines ==
    {NodeLine(name, GoodAttributes(name)) : name \in NodeNames}
    \cup UNION {{NodeLine(name, attributes) : attributes \in BadAttributes(name)} :
                   name \in BadNames}
    \cup {EdgeLine(f, t) : f \in EdgeFrom, t \in EdgeTo}
    \cup {OtherLine}

(***************************************************************************)
(* main                                                                    *)
(***************************************************************************)
\* the text main prints before and after the cluster blocks
Header ==
    "digraph root {\n\tcompound = \"true\";\n\tnewrank = \"true\";\n"
    \o "\tsplines = \"true\";\n\tgraph[style = solid, fontname = \"helvetica\", "
    \o "fontsize = 12, rankdir = \"LR\"]\n \tedge[arrowsize = 0.6];\n"
    \o "\tnode[fontname = \"helvetica\", fontsize = 10]"
Footer ==
    "\t\"[xandr-integration] provider.terraform (close)\""
    \o "[label=\"provider.terraform\"];\n"

\* pc: "main" between two files of the list comprehension of main,
\* "from_file" inside the loop of Graph.from_file, "raised" once an exception
\* has left main, "exit" after the last print
Init ==
    /\ pc = "main"
    /\ argc \in 0..MaxFiles
    /\ graph = NoGraph
    /\ subgraphs = <<>>
    /\ stdout = <<>>
    /\ line = NoLine
    /\ nread = 0

\* Graph.from_file up to the loop: graph = cls(name=root)
OpenFile ==
    /\ pc = "main"
    /\ Len(subgraphs) < argc
    /\ pc' = "from_file"
    /\ graph' = (Root :> Graph_init(FileRoot(Len(subgraphs) + 1), None))
    /\ line' = NoLine
    /\ UNCHANGED <<argc, subgraphs, stdout, nread>>

\* a variant of ReadLine that skips a line whose node raises and goes on
ReadLine_lenient ==
    /\ pc = "from_file"
    /\ nread < MaxLines
    /\ \E l \in Lines :
         /\ line' = l
         /\ graph' = LoopBody(graph, l).graph
    /\ pc' = "from_file"
    /\ nread' = nread + 1
    /\ UNCHANGED <<argc, subgraphs, stdout>>

\* one iteration of the loop of Graph.from_file; an exception leaves from_file
\* and main, and the tree under construction is lost with the frame
ReadLine ==
    /\ pc = "from_file"
    /\ nread < MaxLines
    /\ \E l \in Lines :
         LET r == LoopBody(graph, l)
         IN  /\ line' = l
             /\ IF r.raised
                THEN pc' = "raised" /\ graph' = NoGraph
                ELSE pc' = "from_file" /\ graph' = r.graph
    /\ nread' = nread + 1
    /\ UNCHANGED <<argc, subgraphs, stdout>>

\* return graph, into the list subgraphs of main
ReturnGraph ==
    /\ pc = "from_file"
    /\ pc' = "main"
    /\ subgraphs' = Append(subgraphs, graph)
    /\ graph' = NoGraph
    /\ line' = NoLine
    /\ UNCHANGED <<argc, stdout, nread>>

\* the four print calls of main
PrintAll ==
    /\ pc = "main"
    /\ Len(subgraphs) = argc
    /\ pc' = "exit"
    /\ stdout' = <<Header,
                   Join("\n", [i \in 1..Len(subgraphs) |-> Graph_str(subgraphs[i], Root)]),
                   Footer,
                   "}">>
    /\ UNCHANGED <<argc, graph, subgraphs, line, nread>>

Next == OpenFile \/ ReadLine \/ ReturnGraph \/ PrintAll

Spec == Init /\ [][Next]_vars

(***************************************************************************)
(* Vocabulary of the properties                                            *)
(***************************************************************************)
\* the trees that exist: the one under construction and the ones returned
Trees ==
    {subgraphs[i] : i \in 1..Len(subgraphs)}
    \cup (IF pc = "from_file" THEN {graph} ELSE {})

Last(seq) == seq[Len(seq)]
Front(seq) == SubSeq(seq, 1, Len(seq) - 1)

\* the elements of a list
Elems(seq) == {seq[i] : i \in 1..Len(seq)}

RECURSIVE RawSegments(_)
\* the names of the leading  module.<name>.  segments of an identifier, empty
\* names included
RawSegments(ws) ==
    IF Len(ws) >= 3 /\ ws[1] = "module"
    THEN <<ws[2]>> \o RawSegments(SubSeq(ws, 3, Len(ws)))
    ELSE <<>>

\* the module path of an identifier: its segment names without the empty ones
PathOf(ws) == SelectSeq(RawSegments(ws), LAMBDA n : n # "")

\* the non-empty prefixes of a path
PrefixesOf(path) == {SubSeq(path, 1, k) : k \in 1..Len(path)}

RECURSIVE SumNodes(_, _)
SumNodes(g, paths) ==
    IF paths = {} THEN 0
    ELSE LET p == CHOOSE q \in paths : TRUE
         IN  Len(g[p].nodes) + SumNodes(g, paths \ {p})

\* the number of nodes of a tree
NodeCount(g) == SumNodes(g, DOMAIN g)

\* this step is an iteration of the loop of from_file that did not raise
Iterated == pc = "from_file" /\ pc' = "from_file" /\ nread' = nread + 1

\* a line that passes the filter, is no edge line and has the node shape
AcceptedNodeLine(l) ==
    l.shape = "node" /\ ~unwanted_patterns(l)

AcceptedEdgeLine(l) ==
    l.shape = "edge" /\ ~unwanted_patterns(l)

\* every node of the tree g
NodesOf(g) == UNION {Elems(g[p].nodes) : p \in DOMAIN g}

(***************************************************************************)
(* C1: after any sequence of body lines processed without error, every     *)
(* node made from a node line is in the node list of exactly one Graph,    *)
(* the one reached from the root along the module path of its identifier   *)
(* (the root when it has none), and every node list is in input order:     *)
(* an iteration that accepts a node line adds one node to the tree, at the *)
(* end of the list of that Graph, and leaves the other lists as they were. *)
(***************************************************************************)
C1_Placed ==
    \A g \in Trees : \A p \in DOMAIN g : \A n \in Elems(g[p].nodes) :
        PathOf(n.name) = p

C1_Appended ==
    Iterated /\ AcceptedNodeLine(line') =>
        LET p   == PathOf(line'.name)
            old == IF p \in DOMAIN graph THEN graph[p].nodes ELSE <<>>
        IN  /\ p \in DOMAIN graph'
            /\ Len(graph'[p].nodes) = Len(old) + 1
            /\ Front(graph'[p].nodes) = old
            /\ Last(graph'[p].nodes).name = line'.name
            /\ NodeCount(graph') = NodeCount(graph) + 1
            /\ \A q \in DOMAIN graph \ {p} : graph'[q].nodes = graph[q].nodes

C1_NodePlacement == [](C1_Placed) /\ [][C1_Appended]_vars

\* a nested Graph holds two nodes and the root holds one
C1_Witness ==
    /\ pc = "from_file"
    /\ AcceptedNodeLine(line)
    /\ Len(graph[Root].nodes) >= 1
    /\ \E p \in DOMAIN graph \ {Root} :
          /\ Len(graph[p].nodes) = 2
          /\ graph[p].nodes[1].name # graph[p].nodes[2].name

(***************************************************************************)
(* C2: get-or-create.  As claimed: the first node with module prefix       *)
(* module.A.module.B. creates exactly two Graphs, a node whose path was    *)
(* walked before creates none and lands in the Graph made before, and the  *)
(* number of non-root Graphs equals the number of distinct non-empty       *)
(* module-path prefixes seen.                                              *)
(***************************************************************************)
\* the node line l has the prefix module.A.module.B. and no node of g has it
FirstTwoLevel(g, l) ==
    /\ Len(RawSegments(l.name)) = 2
    /\ PathOf(l.name) = RawSegments(l.name)
    /\ \A n \in NodesOf(g) : RawSegments(n.name) # RawSegments(l.name)

C2_Reseen ==
    Iterated /\ AcceptedNodeLine(line') /\ PathOf(line'.name) \in DOMAIN graph =>
        LET p == PathOf(line'.name)
        IN  /\ DOMAIN graph' = DOMAIN graph
            /\ graph'[p] = [graph[p] EXCEPT !.nodes = Append(@, Last(graph'[p].nodes))]
            /\ \A q \in DOMAIN graph \ {p} : graph'[q] = graph[q]

C2_Count ==
    \A g \in Trees :
        /\ DOMAIN g \ {Root} = UNION {PrefixesOf(PathOf(n.name)) : n \in NodesOf(g)}
        /\ Cardinality(DOMAIN g \ {Root})
               = Cardinality(UNION {PrefixesOf(PathOf(n.name)) : n \in NodesOf(g)})

C2_ExactlyTwo ==
    Iterated /\ AcceptedNodeLine(line') /\ FirstTwoLevel(graph, line') =>
        Cardinality(DOMAIN graph') = Cardinality(DOMAIN graph) + 2

C2_Created ==
    Iterated /\ AcceptedNodeLine(line') =>
        LET path == PathOf(line'.name)
        IN  /\ DOMAIN graph' = DOMAIN graph \cup PrefixesOf(path)
            /\ \A q \in DOMAIN graph :
                  /\ graph'[q].name = graph[q].name
                  /\ graph'[q].label = graph[q].label
            /\ FirstTwoLevel(graph, line') =>
                  LET A == <<path[1]>>
                  IN  /\ path[1] \in Elems(graph'[Root].modules)
                      /\ path[2] \in Elems(graph'[A].modules)
                      /\ Cardinality(DOMAIN graph') - Cardinality(DOMAIN graph)
                             = IF A \in DOMAIN graph THEN 1 ELSE 2

EdgesOf(g) == UNION {Elems(g[p].edges) : p \in DOMAIN g}

(***************************************************************************)
(* C3: every non-root Graph has name = <name of the Graph it is inserted   *)
(* into> + ":" + <local name> and label = <local name>, and no two Graphs  *)
(* of one tree have the same name.                                         *)
(***************************************************************************)
C3_Original ==
    \A g \in Trees :
        /\ \A p \in DOMAIN g \ {Root} :
              /\ g[p].name = g[Front(p)].name \o ":" \o Last(p)
              /\ g[p].label = <<Last(p)>>
        /\ \A p, q \in DOMAIN g : p # q => g[p].name # g[q].name

(***************************************************************************)
(* C4: as claimed, the owner of every node is the Graph whose node list    *)
(* holds it, so its rendered identifier carries that Graph's name.         *)
(***************************************************************************)
C4_Original ==
    \A g \in Trees : \A p \in DOMAIN g : \A n \in Elems(g[p].nodes) :
        /\ n.graph = p
        /\ RenderedId(g, n.graph, n.name)
               = "\"[" \o g[p].name \o "] " \o Dotted(n.name) \o "\""

\* C4, amended: the owner of every node is the root Graph of its file, so its
\* rendered identifier carries the root's name; the owner is the Graph whose
\* node list holds the node only for the nodes placed in the root
C4_OwnerIsRoot ==
    \A g \in Trees : \A p \in DOMAIN g : \A n \in Elems(g[p].nodes) :
        /\ n.graph = Root
        /\ RenderedId(g, n.graph, n.name)
               = "\"[" \o g[Root].name \o "] " \o Dotted(n.name) \o "\""
        /\ (n.graph = p) <=> (p = Root)

\* a returned tree with a node in the root and a node in a nested Graph
C4_Witness ==
    \E i \in 1..Len(subgraphs) :
        /\ Len(subgraphs[i][Root].nodes) >= 1
        /\ \E p \in DOMAIN subgraphs[i] : Len(p) = 2 /\ Len(subgraphs[i][p].nodes) >= 1

(***************************************************************************)
(* C5: no partial success.  A node line that passes the filter and whose   *)
(* attribute text has a pair that is no key=value, or has no label key,    *)
(* ends the run in an error: no tree is returned for the file and nothing  *)
(* is printed, also not for the files parsed before; what is printed is    *)
(* printed after every file has been parsed.                               *)
(***************************************************************************)
Malformed(attributes) ==
    \/ \E i \in 1..Len(attributes) : Len(attributes[i]) # 2
    \/ ~\E i \in 1..Len(attributes) : attributes[i][1] = <<"label">>

C5_NoPartialSuccess ==
    /\ AcceptedNodeLine(line) /\ Malformed(line.attributes) =>
          /\ pc = "raised"
          /\ graph = NoGraph
          /\ Len(subgraphs) < argc
    /\ pc = "raised" => stdout = <<>>
    /\ stdout # <<>> => pc = "exit" /\ Len(subgraphs) = argc

\* the second file raised after a first file with a node was returned
C5_Witness ==
    /\ pc = "raised"
    /\ AcceptedNodeLine(line) /\ Malformed(line.attributes)
    /\ Len(subgraphs) = 1
    /\ NodeCount(subgraphs[1]) >= 1

(***************************************************************************)
(* C6: a line that passes the filter, is no edge line and has the generic  *)
(* node shape either adds exactly one node to the tree or ends the run in  *)
(* an error; it is never consumed with the node count unchanged.           *)
(***************************************************************************)
C6_Step ==
    pc = "from_file" /\ nread' = nread + 1 /\ AcceptedNodeLine(line') =>
        \/ pc' = "raised"
        \/ pc' = "from_file" /\ NodeCount(graph') = NodeCount(graph) + 1

C6_NeverDropped == [][C6_Step]_vars

\* the line read last was a node line no narrower class takes, and its node
\* is in the tree
C6_Witness ==
    /\ pc = "from_file"
    /\ AcceptedNodeLine(line) /\ ~Variable_valid_line(line)
    /\ \E n \in NodesOf(graph) : n.name = line.name /\ n.cls = "Resource"

(***************************************************************************)
(* C7: a line that matches an unwanted pattern leaves the whole tree as it *)
(* was, whatever its shape: no edge, no node and no Graph is added.        *)
(***************************************************************************)
C7_Step ==
    pc = "from_file" /\ nread' = nread + 1 /\ unwanted_patterns(line') =>
        pc' = "from_file" /\ graph' = graph

C7_RejectedLineNoEffect == [][C7_Step]_vars

\* a rejected node line with a module prefix was read and the tree is empty
C7_Witness ==
    /\ pc = "from_file"
    /\ line.shape = "node" /\ unwanted_patterns(line)
    /\ Len(RawSegments(line.name)) >= 1
    /\ graph = (Root :> Graph_init(graph[Root].name, None))

(***************************************************************************)
(* C8: every edge is in the edge list of the root Graph, owned by the      *)
(* root, in input order; the other Graphs have no edges; an accepted edge  *)
(* line adds no Graph and no node.                                         *)
(***************************************************************************)
C8_AtRoot ==
    \A g \in Trees : \A p \in DOMAIN g :
        /\ p # Root => g[p].edges = <<>>
        /\ \A e \in Elems(g[p].edges) : e.graph = Root

C8_Step ==
    Iterated /\ AcceptedEdgeLine(line') =>
        graph' = [graph EXCEPT ![Root].edges =
                     Append(@, [from_name |-> line'.from_name,
                                to_name   |-> line'.to_name,
                                graph     |-> Root])]

C8_EdgesAtRoot == [](C8_AtRoot) /\ [][C8_Step]_vars

\* two edges were read, one from an identifier with a module prefix, and the
\* tree has no Graph but the root
C8_Witness ==
    /\ pc = "from_file"
    /\ line.shape = "edge"
    /\ DOMAIN graph = {Root}
    /\ Len(graph[Root].edges) = 2
    /\ Len(RawSegments(graph[Root].edges[1].from_name)) >= 1
    /\ Len(RawSegments(graph[Root].edges[2].from_name)) = 0

(***************************************************************************)
(* C9: an empty sub-module name in the module prefix of a node identifier  *)
(* is dropped before the walk: no modules mapping has the key "", no Graph *)
(* has an empty local name, and the node is placed as if the empty         *)
(* segments were not there.                                                *)
(***************************************************************************)
RECURSIVE WithoutEmptySegments(_)
\* the identifier ws with its  module..  segments taken out
WithoutEmptySegments(ws) ==
    IF Len(ws) >= 3 /\ ws[1] = "module"
    THEN (IF ws[2] = "" THEN <<>> ELSE <<ws[1], ws[2]>>)
             \o WithoutEmptySegments(SubSeq(ws, 3, Len(ws)))
    ELSE ws

C9_NoEmptyName ==
    \A g \in Trees : \A p \in DOMAIN g :
        /\ "" \notin Elems(p)
        /\ "" \notin Elems(g[p].modules)
        /\ p # Root => g[p].label # <<"">>
        /\ \A n \in Elems(g[p].nodes) :
              p = RawSegments(WithoutEmptySegments(n.name))

\* nodes with an empty segment were placed: one in the root, one in a Graph
\* below it
C9_Witness ==
    /\ pc = "from_file"
    /\ \E n \in Elems(graph[Root].nodes) : "" \in Elems(RawSegments(n.name))
    /\ \E p \in DOMAIN graph \ {Root} : \E n \in Elems(graph[p].nodes) :
          "" \in Elems(RawSegments(n.name))

(***************************************************************************)
(* C10: rendered edges attach to rendered nodes.  A node keeps the full    *)
(* identifier of its line as its name, and an edge endpoint that equals    *)
(* that identifier is rendered with the same identifier as the node, also  *)
(* for a node placed in a nested Graph.                                    *)
(***************************************************************************)
C10_EdgesAttach ==
    /\ \A g \in Trees : \A e \in EdgesOf(g) : \A n \in NodesOf(g) :
          /\ e.from_name = n.name =>
                RenderedId(g, e.graph, e.from_name) = RenderedId(g, n.graph, n.name)
          /\ e.to_name = n.name =>
                RenderedId(g, e.graph, e.to_name) = RenderedId(g, n.graph, n.name)
    /\ pc = "from_file" /\ AcceptedNodeLine(line) =>
          \E n \in NodesOf(graph) :
              /\ n.name = line.name
              /\ \A e \in EdgesOf(graph) :
                    /\ e.from_name = line.name =>
                          RenderedId(graph, e.graph, e.from_name)
                              = RenderedId(graph, n.graph, n.name)
                    /\ e.to_name = line.name =>
                          RenderedId(graph, e.graph, e.to_name)
                              = RenderedId(graph, n.graph, n.name)

\* an edge leaves the identifier of a node that is in a nested Graph
C10_Witness ==
    /\ pc = "from_file"
    /\ \E e \in EdgesOf(graph) : \E p \in DOMAIN graph \ {Root} :
          \E n \in Elems(graph[p].nodes) : e.from_name = n.name

====
